---- MODULE Spec2Model ----
(***************************************************************************)
(* Bulk-mutation engine of the Cassandra binding                           *)
(* (src/bindings/databases/cassandra_db.py):                               *)
(*   bulk_insert      = Cassandra.batch_insert_dicts_to_cassandra          *)
(*   bulk_delete_many = Cassandra.delete_all_rows_batch_multiple           *)
(*   bulk_delete      = Cassandra.delete_all_rows                          *)
(* One call of one of the three operations is modelled per behaviour; the  *)
(* session (prepare / execute / execute_async / future.result) is the      *)
(* environment and may fail nondeterministically.                          *)
(***************************************************************************)
EXTENDS Integers, Sequences, FiniteSets, TLC

\* ---------------------------------------------------------------- bounds
MaxRecs    == 3
MaxRows    == 3
MaxRetries == 3
MaxConc    == 2
MaxBatch   == 2
MaxPage    == 2
MaxAttempts == 3
MaxDepth    == 3
MaxTime     == 3
MaxOps      == 2

\* --------------------------------------------------------------- helpers
Min(a, b) == IF a < b THEN a ELSE b

RECURSIVE SumSeq(_)
SumSeq(s) == IF s = <<>> THEN 0 ELSE Head(s) + SumSeq(Tail(s))

RECURSIVE SelectIdx(_, _)
\* the elements of the sequence s whose index is in the set keep, in order
SelectIdx(s, keep) ==
    IF s = <<>> THEN <<>>
    ELSE LET n == Len(s)
             front == SelectIdx(SubSeq(s, 1, n - 1), keep)
         IN  IF n \in keep THEN Append(front, s[n]) ELSE front

\* ------------------------------------------------------- the environment
\* tables of the keyspace metadata and the rows each holds; "tx" is absent,
\* "tn" is present but its metadata lists no key column
PresentTables == {"t0", "t1", "t2", "tn"}
AllTables     == PresentTables \cup {"tx"}
TableRows     == [t \in PresentTables |->
                    CASE t = "t0" -> 0
                      [] t = "t1" -> MaxRows
                      [] t = "t2" -> 1
                      [] t = "tn" -> 0]
\* pk_columns: partition_key + clustering_key of the table metadata
PkColumns(t)  == IF t = "tn" THEN <<>> ELSE <<"id">>

\* ---------------------------------------------------------------- inputs
RecordAt(i) == [table |-> IF i % 3 = 0 THEN "t2" ELSE "t1",
                cols  |-> IF i % 2 = 0 THEN "b" ELSE "a"]
\* an input whose records all go to one table
SingleTableInput == [i \in 1..MaxRecs |-> [RecordAt(i) EXCEPT !.table = "t1"]]
InsertInputs == { [i \in 1..n |-> RecordAt(i)] : n \in {0, 1, 2, MaxRecs} }
                \cup {SingleTableInput}
TableLists   == { <<>>, <<"t1">>, <<"t0">>, <<"tn">>, <<"tx", "t2">>,
                  <<"t1", "t2">>, <<"t2", "tx", "t0">> }
RetryChoices == {0, 1, MaxRetries}
RetryDelays  == {1, 2}
PageSizes    == {1, MaxPage, MaxPage + 1}
BatchSizes   == {0, 1, MaxBatch}
Concurrency  == {0, 1, MaxConc}

VARIABLES
    op,           \* which entry point was called
    par,          \* its arguments
    pc,           \* "start" | "run" | "returned" | "raised"
    cause,        \* what raised, when pc = "raised"
    stmts,        \* statements prepared / executed on the session so far
    tasks,        \* bulk_insert: all_tasks with the state of their futures
    table_stats,  \* bulk_insert: table_stats
    report,       \* bulk_insert: the returned dict
    tbl,          \* bulk_delete_many: one process_table frame per table
    results,      \* bulk_delete_many: results
    bd,           \* bulk_delete: the frame of delete_all_rows
    failures,     \* failures the code recorded (logged / counted)
    cli,          \* the operation followed call by call, "none" in Spec
    pw,           \* get_prepared_statement: the workers and the cache
    conn,         \* __enter__ of Cassandra / Dragonfly: the connection loop
    kf,           \* Kafka: the search loop
    aero,         \* AerospikeClient.write and the record it writes
    pg            \* PostgresClient: connection, cursor and transaction

bulkVars == <<op, par, pc, cause, stmts, tasks, table_stats, report, tbl,
              results, bd, failures>>
stepVars == <<cli, pw, conn, kf, aero, pg>>
vars     == <<bulkVars, stepVars>>

NoReport == [none |-> TRUE]
NoFrame  == [st |-> "idle"]

\* the operations followed call by call are not running
StepIdle ==
    /\ cli = "none" /\ pw = NoFrame /\ conn = NoFrame
    /\ kf = NoFrame /\ aero = NoFrame /\ pg = NoFrame

Init ==
    /\ op \in {"insert", "delete_many", "delete", "get_keys"}
    /\ par \in [records     : InsertInputs,
                table_names : TableLists,
                table_name  : {"t0", "t1", "tx", "tn"},
                page_size   : PageSizes,
                batch_size  : BatchSizes,
                concurrency : Concurrency,
                max_retries : RetryChoices,
                retry_delay : RetryDelays]
    \* arguments the called entry point does not take are fixed
    /\ op # "insert"      => par.records = <<>>
    /\ op # "delete_many" => par.table_names = <<>>
    /\ op \notin {"delete", "get_keys"} => par.table_name = "t1"
    /\ op = "get_keys"    => /\ par.page_size = 1 /\ par.batch_size = 1
                             /\ par.concurrency = 1 /\ par.max_retries = 1
    /\ op = "insert"      => par.page_size = 1
    /\ op = "delete"      => par.batch_size = 1
    \* the widest page is scanned by bulk_delete_many alone, with the widest
    \* batch, one attempt and one worker
    /\ par.page_size > MaxPage => /\ op = "delete_many"
                                  /\ par.batch_size = MaxBatch
                                  /\ par.max_retries = 1
                                  /\ par.concurrency = 1
    \* the single-table input is inserted with one attempt and one worker
    /\ par.records = SingleTableInput => /\ par.max_retries = 1
                                         /\ par.concurrency = 1
    \* no wait ever happens with fewer than two attempts; the longer delay
    \* is taken with at most one worker
    /\ par.max_retries < 2 => par.retry_delay = 1
    /\ par.retry_delay > 1 => par.concurrency <= 1
    /\ pc = "start"
    /\ cause = "none"
    /\ stmts = {}
    /\ tasks = <<>>
    /\ table_stats = <<>>
    /\ report = NoReport
    /\ tbl = <<>>
    /\ results = <<>>
    /\ bd = NoFrame
    /\ failures = {}
    /\ StepIdle

\* ======================================================== bulk_insert
\* tables of the input in order of first occurrence (keys of tables_data)
RECURSIVE TablesInOrder(_)
TablesInOrder(records) ==
    IF records = <<>> THEN <<>>
    ELSE LET n     == Len(records)
             front == TablesInOrder(SubSeq(records, 1, n - 1))
         IN  IF \E i \in 1..Len(front) : front[i] = records[n].table
             THEN front ELSE Append(front, records[n].table)

\* tables_data[t]: the column sets of the records of table t, in input order
TableData(records, t) ==
    LET keep == {i \in 1..Len(records) : records[i].table = t}
        kept == SelectIdx(records, keep)
    IN  [i \in 1..Len(kept) |-> kept[i].cols]

\* faulty variant: the whole batch goes into one grouped write under the
\* column set of its first record
ColumnsGroups_Whole(batch_data) ==
    IF batch_data = <<>> THEN <<>>
    ELSE <<[cols |-> Head(batch_data), n |-> Len(batch_data)]>>

\* columns_groups of one batch: the sizes of its column-set groups, in order
\* of first occurrence of the column set
RECURSIVE ColumnsGroups(_)
ColumnsGroups(batch_data) ==
    IF batch_data = <<>> THEN <<>>
    ELSE LET c    == Head(batch_data)
             same == {i \in 1..Len(batch_data) : batch_data[i] = c}
             rest == SelectIdx(batch_data, (1..Len(batch_data)) \ same)
         IN  <<[cols |-> c, n |-> Cardinality(same)]>> \o ColumnsGroups(rest)

NewTask(t, size, groups, num) ==
    [table |-> t, size |-> size, groups |-> groups, num |-> num,
     st |-> "queued", attempt |-> 0, delays |-> <<>>,
     succ |-> 0, fail |-> 0, errs |-> <<>>,
     \* what the attempts handed to the session: sent is the set of record
     \* counts an attempt set out to submit, wcount[k] the number of times
     \* the grouped write of groups[k] was executed
     sent |-> {}, wcount |-> [k \in 1..Len(groups) |-> 0]]

\* faulty variant: the records after the last full batch of a table are left
\* out
RECURSIVE TableBatches_DropPartial(_, _, _, _)
TableBatches_DropPartial(t, table_data, batch_size, num) ==
    IF Len(table_data) < batch_size THEN <<>>
    ELSE LET batch_data == SubSeq(table_data, 1, batch_size)
         IN  <<NewTask(t, Len(batch_data), ColumnsGroups(batch_data), num)>>
             \o TableBatches_DropPartial(t,
                    SubSeq(table_data, batch_size + 1, Len(table_data)),
                    batch_size, num + 1)

\* the batches of one table: range(0, len(table_data), batch_size)
RECURSIVE TableBatches(_, _, _, _)
TableBatches(t, table_data, batch_size, num) ==
    IF table_data = <<>> THEN <<>>
    ELSE LET k          == Min(batch_size, Len(table_data))
             batch_data == SubSeq(table_data, 1, k)
         IN  <<NewTask(t, Len(batch_data), ColumnsGroups(batch_data), num)>>
             \o TableBatches(t, SubSeq(table_data, k + 1, Len(table_data)),
                             batch_size, num + 1)

RECURSIVE AllTasks(_, _, _)
AllTasks(records, order, batch_size) ==
    IF order = <<>> THEN <<>>
    ELSE TableBatches(Head(order), TableData(records, Head(order)), batch_size, 1)
         \o AllTasks(records, Tail(order), batch_size)

\* a dict that creates its entry on first access (defaultdict)
Upd(f, k, v) == [x \in DOMAIN f \cup {k} |-> IF x = k THEN v ELSE f[x]]

EmptyStats == [successful |-> 0, failed |-> 0, batches |-> 0, errors |-> <<>>]
StatsOf(t) == IF t \in DOMAIN table_stats THEN table_stats[t] ELSE EmptyStats

\* Outcomes of one attempt of a batch: the grouped statement is executed,
\* or session.prepare / session.execute raises.
Outcomes == {"ok", "prepare_error", "execute_error"}

\* statements an attempt on table t hands to the session when it fails at
\* its g-th column group, or not at all
AttemptStmts(t, outcome, g) ==
    IF outcome = "prepare_error" /\ g = 1 THEN {<<"prepare", t>>}
    ELSE {<<"prepare", t>>, <<"batch", t>>}

\* faulty variant: the wait does not grow with the attempt number
BackoffDelay_Constant(retry_delay, a) == retry_delay

\* time.sleep(retry_delay * (attempt + 1)); a is the 1-based attempt number
BackoffDelay(retry_delay, a) == retry_delay * a

\* faulty variant: once a batch has failed, the pool starts no further batch
CanStart_StopAfterFailure(ts, i, max_workers) ==
    /\ ts[i].st = "queued"
    /\ \A j \in 1..(i - 1) : ts[j].st # "queued"
    /\ Cardinality({j \in 1..Len(ts) : ts[j].st = "running"}) < max_workers
    /\ \A j \in 1..Len(ts) : ts[j].fail = 0

\* faulty variant: a queued task starts whether or not a worker is free
CanStart_NoLimit(ts, i, max_workers) ==
    /\ ts[i].st = "queued"
    /\ \A j \in 1..(i - 1) : ts[j].st # "queued"

\* ThreadPoolExecutor: a queued task starts when a worker is free, in
\* submission order
CanStart(ts, i, max_workers) ==
    /\ ts[i].st = "queued"
    /\ \A j \in 1..(i - 1) : ts[j].st # "queued"
    /\ Cardinality({j \in 1..Len(ts) : ts[j].st = "running"}) < max_workers

\* faulty variant: an exhausted batch reports no failed record
InsertExhausted_Zero(size) == 0

\* local_failed = len(batch_data) when the last attempt failed
InsertExhausted(size) == size

\* faulty variant: a retry resumes at the first column group not yet written
AttemptStart_Resume(t) ==
    IF \E k \in 1..Len(t.groups) : t.wcount[k] = 0
    THEN CHOOSE k \in 1..Len(t.groups) :
            /\ t.wcount[k] = 0
            /\ \A j \in 1..(k - 1) : t.wcount[j] > 0
    ELSE Len(t.groups)

\* every pass of the retry loop rebuilds columns_groups from the whole
\* batch_data and walks it from its first group
AttemptStart(t) == 1

\* the records of the column groups from..upto of batch t
GroupRecords(t, from, upto) ==
    SumSeq([k \in 1..(upto - from + 1) |-> t.groups[from + k - 1].n])

\* the grouped writes of one pass: the groups from the start up to written
\* are executed, one BatchStatement each
Submit(t, written) ==
    [t EXCEPT !.sent = @ \cup {GroupRecords(t, AttemptStart(t), Len(t.groups))},
              !.wcount = [k \in 1..Len(t.groups) |->
                            IF k >= AttemptStart(t) /\ k <= written
                            THEN @[k] + 1 ELSE @[k]]]

\* one pass of the retry loop of execute_table_batch; a failing pass fails
\* at its g-th column group, after the groups before it were executed
TableBatchAttempt(t, outcome, g) ==
    LET a == t.attempt + 1 IN
    IF outcome = "ok"
    THEN [Submit(t, Len(t.groups)) EXCEPT
             !.attempt = a, !.succ = t.size, !.st = "finished"]
    ELSE IF a = par.max_retries
         THEN [Submit(t, g - 1) EXCEPT
                  !.attempt = a, !.errs = Append(@, <<t.num, a>>),
                  !.fail = InsertExhausted(t.size), !.st = "finished"]
         ELSE [Submit(t, g - 1) EXCEPT
                  !.attempt = a, !.errs = Append(@, <<t.num, a>>),
                  !.delays = Append(@, BackoffDelay(par.retry_delay, a)),
                  !.st = "running"]

Failure(kind, a) == [op |-> op, kind |-> kind, attempts |-> a]

\* records empty: the early return
InsertEmpty ==
    /\ op = "insert" /\ pc = "start"
    /\ par.records = <<>>
    /\ report' = [total_records |-> 0, tables |-> <<>>, execution_time |-> 0]
    /\ pc' = "returned"
    /\ UNCHANGED <<stepVars, op, par, cause, stmts, tasks, table_stats, tbl, results,
                   bd, failures>>

\* range(0, n, 0) and ThreadPoolExecutor(max_workers=0) raise ValueError,
\* which the outer handler logs and re-raises
InsertInvalid ==
    /\ op = "insert" /\ pc = "start"
    /\ par.records # <<>>
    /\ par.batch_size = 0 \/ par.concurrency = 0
    /\ pc' = "raised"
    /\ cause' = "config"
    /\ UNCHANGED <<stepVars, op, par, stmts, tasks, table_stats, report, tbl, results,
                   bd, failures>>

\* grouping, chunking and submission of every batch to the pool
InsertSubmit ==
    /\ op = "insert" /\ pc = "start"
    /\ par.records # <<>>
    /\ par.batch_size > 0 /\ par.concurrency > 0
    /\ tasks' = AllTasks(par.records, TablesInOrder(par.records), par.batch_size)
    /\ pc' = "run"
    /\ UNCHANGED <<stepVars, op, par, cause, stmts, table_stats, report, tbl, results,
                   bd, failures>>

\* a worker runs one attempt of execute_table_batch on batch i
InsertAttempt(i, outcome, g) ==
    /\ op = "insert" /\ pc = "run"
    /\ par.max_retries > 0
    /\ g \in 1..Len(tasks[i].groups)
    /\ outcome = "ok" => g = Len(tasks[i].groups)
    /\ tasks[i].st = "running" \/ CanStart(tasks, i, par.concurrency)
    /\ LET t == TableBatchAttempt(tasks[i], outcome, g) IN
       /\ tasks' = [tasks EXCEPT ![i] = t]
       /\ failures' = IF outcome # "ok" /\ t.st = "finished"
                      THEN failures \cup {Failure("batch", t.attempt)}
                      ELSE failures
    /\ stmts' = stmts \cup AttemptStmts(tasks[i].table, outcome, g)
    /\ UNCHANGED <<stepVars, op, par, pc, cause, table_stats, report, tbl, results, bd>>

\* range(max_retries) is empty: the function falls through to its return
InsertNoAttempt(i) ==
    /\ op = "insert" /\ pc = "run"
    /\ par.max_retries = 0
    /\ CanStart(tasks, i, par.concurrency)
    /\ tasks' = [tasks EXCEPT ![i].st = "finished"]
    /\ UNCHANGED <<stepVars, op, par, pc, cause, stmts, table_stats, report, tbl,
                   results, bd, failures>>

\* faulty variant: the error messages of the batch are not kept
CollectStats_NoErrors(old, t) ==
    [successful |-> old.successful + t.succ,
     failed     |-> old.failed + t.fail,
     batches    |-> old.batches + 1,
     errors     |-> old.errors]

\* faulty variant: the update starts from a stale, empty entry and
\* overwrites what other batches of the table have added
CollectStats_LostUpdate(old, t) ==
    [successful |-> t.succ,
     failed     |-> t.fail,
     batches    |-> 1,
     errors     |-> old.errors \o t.errs]

\* the statistics update of the as_completed loop
CollectStats(old, t) ==
    [successful |-> old.successful + t.succ,
     failed     |-> old.failed + t.fail,
     batches    |-> old.batches + 1,
     errors     |-> old.errors \o t.errs]

\* the main thread takes a completed future
InsertCollect(i) ==
    /\ op = "insert" /\ pc = "run"
    /\ tasks[i].st = "finished"
    /\ table_stats' = Upd(table_stats, tasks[i].table,
                          CollectStats(StatsOf(tasks[i].table), tasks[i]))
    /\ tasks' = [tasks EXCEPT ![i].st = "collected"]
    /\ UNCHANGED <<stepVars, op, par, pc, cause, stmts, report, tbl, results, bd,
                   failures>>

\* faulty variant: the rate is left a fraction, not multiplied by 100
SuccessRate_Fraction(total_successful, total_records) ==
    IF total_records > 0 THEN <<total_successful, total_records>>
    ELSE <<0, 1>>

\* success_rate as the fraction <<numerator, denominator>>
SuccessRate(total_successful, total_records) ==
    IF total_records > 0 THEN <<total_successful * 100, total_records>>
    ELSE <<0, 1>>

SumStats(stats, field) ==
    LET ts == CHOOSE q \in [1..Cardinality(DOMAIN stats) -> DOMAIN stats] :
                  \A x \in DOMAIN stats : \E i \in DOMAIN q : q[i] = x
    IN  SumSeq([i \in DOMAIN ts |-> stats[ts[i]][field]])

FinalStats(stats, total_records) ==
    [total_records    |-> total_records,
     total_successful |-> SumStats(stats, "successful"),
     total_failed     |-> SumStats(stats, "failed"),
     success_rate     |-> SuccessRate(SumStats(stats, "successful"), total_records),
     tables           |-> stats]

\* the pool is drained: final statistics, return
InsertReturn ==
    /\ op = "insert" /\ pc = "run"
    /\ \A i \in 1..Len(tasks) : tasks[i].st = "collected"
    /\ report' = FinalStats(table_stats, Len(par.records))
    /\ pc' = "returned"
    /\ UNCHANGED <<stepVars, op, par, cause, stmts, tasks, table_stats, tbl, results,
                   bd, failures>>

InsertNext ==
    \/ InsertEmpty
    \/ InsertInvalid
    \/ InsertSubmit
    \/ \E i \in 1..Len(tasks) : \E o \in Outcomes : \E g \in 1..MaxBatch :
          InsertAttempt(i, o, g)
    \/ \E i \in 1..Len(tasks) : InsertNoAttempt(i)
    \/ \E i \in 1..Len(tasks) : InsertCollect(i)
    \/ InsertReturn

\* =================================================== bulk_delete_many
Names == {par.table_names[i] : i \in 1..Len(par.table_names)}

\* tables_metadata: the requested tables the keyspace metadata knows
InMetadata(t) == t \in PresentTables

\* the prepare calls of the preparation loop up to and including position k
PreparedUpTo(k) ==
    {<<"prepare", par.table_names[i]>> :
        i \in {j \in 1..k : InMetadata(par.table_names[j])}}

\* faulty variant: the unknown table is not skipped
ReachesPrepare_NoSkip(t) == TRUE

\* the preparation loop goes on to session.prepare for table t: a table the
\* metadata does not know is skipped with a warning (continue)
ReachesPrepare(t) == InMetadata(t)

NewFrame ==
    [st |-> "queued", rem |-> 0, page_num |-> 0, has_more |-> FALSE,
     rows |-> 0, used |-> <<>>, batches |-> <<>>, total_deleted |-> 0,
     observed |-> 0, succRows |-> 0, failedRows |-> 0, crit |-> "none"]

\* session.prepare raises for the table at position k of table_names: the
\* loop is not guarded, the exception leaves the call
DMPrepareFail(k) ==
    /\ op = "delete_many" /\ pc = "start"
    /\ k \in 1..Len(par.table_names)
    /\ ReachesPrepare(par.table_names[k])
    /\ stmts' = stmts \cup PreparedUpTo(k)
    /\ pc' = "raised"
    /\ cause' = IF InMetadata(par.table_names[k]) THEN "prepare" ELSE "schema"
    /\ UNCHANGED <<stepVars, op, par, tasks, table_stats, report, tbl, results, bd,
                   failures>>

\* faulty variant: the outer pool has one worker per requested table
OuterWorkers_PerTable == Len(par.table_names)

\* max_workers of the outer pool
OuterWorkers == Min(Len(par.table_names), par.concurrency)

\* every statement is prepared, then ThreadPoolExecutor(max_workers=0)
\* raises ValueError
DMInvalid ==
    /\ op = "delete_many" /\ pc = "start"
    /\ OuterWorkers = 0
    /\ stmts' = stmts \cup PreparedUpTo(Len(par.table_names))
    /\ pc' = "raised"
    /\ cause' = "config"
    /\ UNCHANGED <<stepVars, op, par, tasks, table_stats, report, tbl, results, bd,
                   failures>>

\* every statement is prepared and every table submitted to the outer pool
DMSubmit ==
    /\ op = "delete_many" /\ pc = "start"
    /\ OuterWorkers > 0
    /\ stmts' = stmts \cup PreparedUpTo(Len(par.table_names))
    /\ tbl' = [t \in Names |-> NewFrame]
    /\ pc' = "run"
    /\ UNCHANGED <<stepVars, op, par, cause, tasks, table_stats, report, results, bd,
                   failures>>

\* faulty variant: the paging state of the first page is sent again
PagingState_Stale(f) == Min(par.page_size, f.observed)

\* result_set.paging_state: the position of the scan after the rows seen
PagingState(f) == f.observed

\* session.execute(statement, paging_state=result_set.paging_state): the
\* server resumes the scan of table t at the position of the token
NextFetch(f, t) ==
    [f EXCEPT !.rem = TableRows[t] - PagingState(f),
              !.used = Append(@, PagingState(f))]

\* faulty variant: the next page is fetched once the first batch is through
PageDrained_First(f) ==
    f.batches = <<>> \/ f.batches[1].st = "collected"

\* the with block of the inner pool is left: every future has completed and
\* as_completed has handed every result to the loop
PageDrained(f) ==
    \A i \in 1..Len(f.batches) : f.batches[i].st = "collected"

\* faulty variant: the rows after the last full batch of a page are dropped
RECURSIVE PageBatches_DropPartial(_, _, _, _)
PageBatches_DropPartial(t, nrows, batch_size, num) ==
    IF nrows < batch_size THEN <<>>
    ELSE <<NewTask(t, batch_size, <<>>, num)>>
         \o PageBatches_DropPartial(t, nrows - batch_size, batch_size, num + 1)

\* the batches of one page: range(0, len(rows), batch_size)
RECURSIVE PageBatches(_, _, _, _)
PageBatches(t, nrows, batch_size, num) ==
    IF nrows = 0 THEN <<>>
    ELSE LET k == Min(batch_size, nrows) IN
         <<NewTask(t, k, <<>>, num)>>
         \o PageBatches(t, nrows - k, batch_size, num + 1)

\* what the server may answer for has_more_pages after a page of n rows
\* when left rows remain: a full last page may or may not announce another
MoreChoices(n, left) ==
    IF left > 0 THEN {TRUE}
    ELSE IF n = par.page_size THEN {TRUE, FALSE}
    ELSE {FALSE}

\* the body of the while loop of process_table once a page has arrived
AfterFetch(f, t, more) ==
    LET n == Min(par.page_size, f.rem) IN
    IF n = 0
    THEN [f EXCEPT !.page_num = @ + 1, !.has_more = FALSE, !.st = "done",
                   !.rows = 0, !.batches = <<>>]
    ELSE IF par.batch_size = 0
    THEN \* range() raises ValueError, caught by the handler of process_table
         [f EXCEPT !.page_num = @ + 1, !.rem = @ - n, !.observed = @ + n,
                   !.rows = n, !.crit = "config", !.st = "done",
                   !.batches = <<>>]
    ELSE [f EXCEPT !.page_num = @ + 1, !.rem = @ - n, !.observed = @ + n,
                   !.rows = n, !.has_more = more, !.st = "run",
                   !.batches = PageBatches(t, n, par.batch_size, 1)]

\* the outer pool starts process_table(t): first SELECT and first page
DMStartTable(t, ok, more) ==
    /\ op = "delete_many" /\ pc = "run"
    /\ t \in Names /\ tbl[t].st = "queued"
    /\ \A j \in 1..Len(par.table_names) :
          (\E i \in (j + 1)..Len(par.table_names) : par.table_names[i] = t)
             => tbl[par.table_names[j]].st # "queued"
    /\ Cardinality({u \in Names : tbl[u].st = "run"}) < OuterWorkers
    /\ IF ~InMetadata(t)
       THEN /\ tbl' = [tbl EXCEPT ![t].st = "done"]
            /\ stmts' = stmts
       ELSE /\ stmts' = stmts \cup {<<"select", t>>}
            /\ IF ok
               THEN /\ more \in MoreChoices(Min(par.page_size, TableRows[t]),
                                            TableRows[t] - Min(par.page_size, TableRows[t]))
                    /\ tbl' = [tbl EXCEPT ![t] =
                                 AfterFetch([tbl[t] EXCEPT !.rem = TableRows[t]], t, more)]
               ELSE tbl' = [tbl EXCEPT ![t].st = "done", ![t].crit = "fetch"]
    /\ UNCHANGED <<stepVars, op, par, pc, cause, tasks, table_stats, report, results,
                   bd, failures>>

\* one pass of the retry loop of execute_delete_batch
DeleteBatchAttempt(t, outcome) ==
    LET a == t.attempt + 1 IN
    IF outcome = "ok"
    THEN [t EXCEPT !.attempt = a, !.succ = t.size, !.st = "finished",
                   !.sent = @ \cup {t.size}]
    ELSE IF a = par.max_retries
         THEN [t EXCEPT !.attempt = a, !.fail = t.size, !.st = "finished",
                        !.sent = @ \cup {t.size}]
         ELSE [t EXCEPT !.attempt = a,
                        !.delays = Append(@, BackoffDelay(par.retry_delay, a)),
                        !.st = "running", !.sent = @ \cup {t.size}]

\* a worker of the inner pool runs one attempt on batch i of the page of t
DMAttempt(t, i, outcome) ==
    /\ op = "delete_many" /\ pc = "run"
    /\ t \in Names /\ tbl[t].st = "run"
    /\ i \in 1..Len(tbl[t].batches)
    /\ par.max_retries > 0
    /\ outcome \in {"ok", "execute_error"}
    /\ tbl[t].batches[i].st = "running"
       \/ CanStart(tbl[t].batches, i, par.concurrency)
    /\ LET b == DeleteBatchAttempt(tbl[t].batches[i], outcome) IN
       /\ tbl' = [tbl EXCEPT ![t].batches[i] = b,
                             ![t].succRows = @ + b.succ,
                             ![t].failedRows = @ + b.fail]
       /\ failures' = IF outcome # "ok" /\ b.st = "finished"
                      THEN failures \cup {Failure("batch", b.attempt)}
                      ELSE failures
    /\ stmts' = stmts \cup {<<"batch", t>>}
    /\ UNCHANGED <<stepVars, op, par, pc, cause, tasks, table_stats, report, results, bd>>

\* range(max_retries) is empty: the return after the loop, (0, len(rows_batch))
DMNoAttempt(t, i) ==
    /\ op = "delete_many" /\ pc = "run"
    /\ t \in Names /\ tbl[t].st = "run"
    /\ i \in 1..Len(tbl[t].batches)
    /\ par.max_retries = 0
    /\ CanStart(tbl[t].batches, i, par.concurrency)
    /\ tbl' = [tbl EXCEPT ![t].batches[i].st = "finished",
                          ![t].batches[i].fail = tbl[t].batches[i].size,
                          ![t].failedRows = @ + tbl[t].batches[i].size]
    /\ failures' = failures \cup {Failure("batch", 0)}
    /\ UNCHANGED <<stepVars, op, par, pc, cause, stmts, tasks, table_stats, report,
                   results, bd>>

\* faulty variant: the rows of a failed batch are counted as deleted too
DeletedIncrement_Both(successful, failed) == successful + failed

\* successful, failed = future.result(); total_deleted += successful
DeletedIncrement(successful, failed) == successful

\* process_table takes a completed future of the page
DMCollect(t, i) ==
    /\ op = "delete_many" /\ pc = "run"
    /\ t \in Names /\ tbl[t].st = "run"
    /\ i \in 1..Len(tbl[t].batches)
    /\ tbl[t].batches[i].st = "finished"
    /\ tbl' = [tbl EXCEPT ![t].batches[i].st = "collected",
                          ![t].total_deleted =
                              @ + DeletedIncrement(tbl[t].batches[i].succ,
                                                   tbl[t].batches[i].fail)]
    /\ UNCHANGED <<stepVars, op, par, pc, cause, stmts, tasks, table_stats, report,
                   results, bd, failures>>

\* the inner pool is drained: next page, or the end of the scan
DMNextPage(t, ok, more) ==
    /\ op = "delete_many" /\ pc = "run"
    /\ t \in Names /\ tbl[t].st = "run"
    /\ PageDrained(tbl[t])
    /\ IF ~tbl[t].has_more
       THEN /\ tbl' = [tbl EXCEPT ![t].st = "done"]
            /\ stmts' = stmts
       ELSE /\ stmts' = stmts \cup {<<"select", t>>}
            /\ LET g == NextFetch(tbl[t], t) IN
               IF ok
               THEN /\ more \in MoreChoices(Min(par.page_size, g.rem),
                                            g.rem - Min(par.page_size, g.rem))
                    /\ tbl' = [tbl EXCEPT ![t] = AfterFetch(g, t, more)]
               ELSE tbl' = [tbl EXCEPT ![t] = [g EXCEPT !.st = "done",
                                                        !.crit = "fetch"]]
    /\ UNCHANGED <<stepVars, op, par, pc, cause, tasks, table_stats, report, results,
                   bd, failures>>

\* the main thread takes the completed future of a table
DMCollectTable(t) ==
    /\ op = "delete_many" /\ pc = "run"
    /\ t \in Names /\ tbl[t].st = "done"
    /\ results' = Upd(results, t, tbl[t].total_deleted)
    /\ tbl' = [tbl EXCEPT ![t].st = "collected"]
    /\ UNCHANGED <<stepVars, op, par, pc, cause, stmts, tasks, table_stats, report, bd,
                   failures>>

DMReturn ==
    /\ op = "delete_many" /\ pc = "run"
    /\ \A t \in Names : tbl[t].st = "collected"
    /\ pc' = "returned"
    /\ UNCHANGED <<stepVars, op, par, cause, stmts, tasks, table_stats, report, tbl,
                   results, bd, failures>>

DMNext ==
    \/ \E k \in 1..Len(par.table_names) : DMPrepareFail(k)
    \/ DMInvalid
    \/ DMSubmit
    \/ \E t \in AllTables : \E ok, more \in BOOLEAN : DMStartTable(t, ok, more)
    \/ \E t \in AllTables : \E i \in 1..MaxPage :
          \E o \in Outcomes : DMAttempt(t, i, o)
    \/ \E t \in AllTables : \E i \in 1..MaxPage : DMNoAttempt(t, i)
    \/ \E t \in AllTables : \E i \in 1..MaxPage : DMCollect(t, i)
    \/ \E t \in AllTables : \E ok, more \in BOOLEAN : DMNextPage(t, ok, more)
    \/ \E t \in AllTables : DMCollectTable(t)
    \/ DMReturn

\* ======================================================== bulk_delete
\* the body of the while loop of delete_all_rows once a page has arrived
BDPage(f, more) ==
    LET n == Min(par.page_size, f.rem) IN
    IF n = 0
    THEN [f EXCEPT !.page_num = @ + 1, !.rows = 0, !.st = "break"]
    ELSE IF par.concurrency = 0
    THEN \* range(0, len(rows), 0) raises ValueError
         [f EXCEPT !.page_num = @ + 1, !.rows = n, !.rem = @ - n,
                   !.observed = @ + n, !.st = "error"]
    ELSE [f EXCEPT !.page_num = @ + 1, !.rows = n, !.rem = @ - n,
                   !.observed = @ + n, !.has_more = more,
                   !.i = 0, !.chunk = Min(par.concurrency, n), !.j = 0,
                   !.futures = <<>>, !.st = "chunk"]

BDFrame ==
    [st |-> "chunk", rem |-> 0, page_num |-> 0, rows |-> 0, has_more |-> FALSE,
     i |-> 0, chunk |-> 0, j |-> 0, futures |-> <<>>, delays |-> <<>>,
     total_deleted |-> 0, observed |-> 0, fetches |-> 0, used |-> <<>>]

\* faulty variant: the failed SELECT ends the scan as an empty page would
FetchFailed_Swallow(f) == [f EXCEPT !.fetches = @ + 1, !.st = "break"]

\* session.execute(statement) raised: nothing catches it but the handler of
\* the whole scan, which logs and re-raises
FetchFailed(f) == [f EXCEPT !.fetches = @ + 1, !.st = "error"]

\* session.execute(statement) returned a result set
Fetched(f) == [f EXCEPT !.fetches = @ + 1]

\* where the call stands after the frame f was computed
BDpc(f) == CASE f.st = "break" -> "returned"
             [] f.st = "error" -> "raised"
             [] OTHER          -> "run"

\* metadata lookup, first SELECT and first page
BDCall(ok, more) ==
    /\ op = "delete" /\ pc = "start"
    /\ IF ~InMetadata(par.table_name) \/ PkColumns(par.table_name) = <<>>
       THEN /\ pc' = "raised" /\ cause' = "schema"
            /\ UNCHANGED <<stmts, bd>>
       ELSE /\ stmts' = stmts \cup {<<"select", par.table_name>>}
            /\ IF ~ok
               THEN LET f == FetchFailed([BDFrame EXCEPT
                                            !.rem = TableRows[par.table_name]])
                    IN  /\ bd' = f
                        /\ pc' = BDpc(f)
                        /\ cause' = "fetch"
               ELSE LET n == Min(par.page_size, TableRows[par.table_name])
                        f == BDPage(Fetched([BDFrame EXCEPT
                                       !.rem = TableRows[par.table_name]]), more)
                    IN  /\ more \in MoreChoices(n, TableRows[par.table_name] - n)
                        /\ bd' = f
                        /\ pc' = BDpc(f)
                        /\ cause' = IF f.st = "error" THEN "config" ELSE cause
    /\ UNCHANGED <<stepVars, op, par, tasks, table_stats, report, tbl, results, failures>>

\* the sleeps of the submit loop of one row when execute_async raised k times
SubmitDelays(k) ==
    [a \in 1..Min(k, par.max_retries - 1) |-> BackoffDelay(par.retry_delay, a)]

\* one row of the chunk: prepare, then the submit loop around execute_async,
\* which raises k times
BDRow(prepOk, k) ==
    /\ op = "delete" /\ pc = "run"
    /\ bd.st = "chunk" /\ bd.j < bd.chunk
    /\ k \in 0..par.max_retries
    /\ stmts' = stmts \cup {<<"prepare", par.table_name>>}
                      \cup IF prepOk /\ par.max_retries > 0
                           THEN {<<"delete", par.table_name>>} ELSE {}
    /\ IF ~prepOk
       THEN /\ bd' = [bd EXCEPT !.j = @ + 1, !.delays = <<>>]
            /\ failures' = failures \cup {Failure("prepare", 0)}
       ELSE IF par.max_retries = 0
       THEN \* the loop body never runs: no future for this row
            /\ bd' = [bd EXCEPT !.j = @ + 1, !.delays = <<>>]
            /\ failures' = failures
       ELSE IF k < par.max_retries
       THEN /\ bd' = [bd EXCEPT !.j = @ + 1, !.delays = SubmitDelays(k),
                                !.futures = Append(@, k + 1)]
            /\ failures' = failures
       ELSE \* the last attempt re-raises; the row handler logs and continues
            /\ bd' = [bd EXCEPT !.j = @ + 1, !.delays = SubmitDelays(k)]
            /\ failures' = failures \cup {Failure("submit", k)}
    /\ UNCHANGED <<stepVars, op, par, pc, cause, tasks, table_stats, report, tbl, results>>

\* future.result() for every future of the chunk; those in failed raise and
\* are logged; then total_deleted += len(batch) and the next chunk
BDAwait(failed) ==
    /\ op = "delete" /\ pc = "run"
    /\ bd.st = "chunk" /\ bd.j = bd.chunk
    /\ failed \subseteq 1..Len(bd.futures)
    /\ failures' = failures \cup {Failure("await", bd.futures[x]) : x \in failed}
    /\ LET i2 == bd.i + par.concurrency IN
       bd' = IF i2 < bd.rows
             THEN [bd EXCEPT !.total_deleted = @ + bd.chunk, !.i = i2,
                             !.chunk = Min(par.concurrency, bd.rows - i2),
                             !.j = 0, !.futures = <<>>, !.delays = <<>>]
             ELSE [bd EXCEPT !.total_deleted = @ + bd.chunk, !.st = "page_end",
                             !.futures = <<>>, !.delays = <<>>]
    /\ UNCHANGED <<stepVars, op, par, pc, cause, stmts, tasks, table_stats, report, tbl,
                   results>>

\* the end of a page: the next SELECT with the paging state, or the end
BDNextPage(ok, more) ==
    /\ op = "delete" /\ pc = "run"
    /\ bd.st = "page_end"
    /\ IF ~bd.has_more
       THEN /\ pc' = "returned"
            /\ UNCHANGED <<cause, stmts, bd>>
       ELSE /\ stmts' = stmts \cup {<<"select", par.table_name>>}
            /\ IF ~ok
               THEN LET f == FetchFailed(NextFetch(bd, par.table_name))
                    IN  /\ bd' = f
                        /\ pc' = BDpc(f)
                        /\ cause' = "fetch"
               ELSE LET g == NextFetch(bd, par.table_name)
                        n == Min(par.page_size, g.rem)
                        f == BDPage(Fetched(g), more)
                    IN  /\ more \in MoreChoices(n, g.rem - n)
                        /\ bd' = f
                        /\ pc' = BDpc(f)
                        /\ cause' = IF f.st = "error" THEN "config" ELSE cause
    /\ UNCHANGED <<stepVars, op, par, tasks, table_stats, report, tbl, results, failures>>

BDNext ==
    \/ \E ok, more \in BOOLEAN : BDCall(ok, more)
    \/ \E prepOk \in BOOLEAN : \E k \in 0..MaxRetries : BDRow(prepOk, k)
    \/ \E failed \in SUBSET (1..MaxConc) : BDAwait(failed)
    \/ \E ok, more \in BOOLEAN : BDNextPage(ok, more)

\* ======================================================== get_all_keys
\* the key columns of every row of one table, read with one SELECT; only an
\* absent table is refused before the statement is built
GKCall(ok) ==
    /\ op = "get_keys" /\ pc = "start"
    /\ IF ~InMetadata(par.table_name)
       THEN /\ pc' = "raised" /\ cause' = "schema"
            /\ UNCHANGED stmts
       ELSE /\ stmts' = stmts \cup {<<"select", par.table_name>>}
            /\ pc' = IF ok THEN "returned" ELSE "raised"
            /\ cause' = IF ok THEN cause ELSE "fetch"
    /\ UNCHANGED <<stepVars, op, par, tasks, table_stats, report, tbl, results, bd,
                   failures>>

GKNext == \E ok \in BOOLEAN : GKCall(ok)

Next == InsertNext \/ DMNext \/ BDNext \/ GKNext

Spec == Init /\ [][Next]_vars

\* ==================================================== call by call
\* StepSpec follows single operations at the grain of their calls to the
\* driver; the bulk operations of Spec are not running
BulkIdle ==
    /\ op = "none"
    /\ par = [records |-> <<>>, table_names |-> <<>>, table_name |-> "t1",
              page_size |-> 1, batch_size |-> 1, concurrency |-> 1,
              max_retries |-> 1, retry_delay |-> 1]
    /\ pc = "start" /\ cause = "none" /\ stmts = {}
    /\ tasks = <<>> /\ table_stats = <<>> /\ report = NoReport
    /\ tbl = <<>> /\ results = <<>> /\ bd = NoFrame /\ failures = {}

\* ------------------------------------------- get_prepared_statement
\* cache_key = (table_name, columns_key) of the g-th column group of batch b
CacheKey(b, g) == <<b.table, b.groups[g].cols>>

\* the cache keys the batches bs ask for
CacheKeys(bs) ==
    UNION {{CacheKey(bs[i], g) : g \in 1..Len(bs[i].groups)} : i \in 1..Len(bs)}

\* the pool workers of one bulk_insert call over the batches of records;
\* every batch is tried once (max_retries = 1)
PWInit(records, batch_size, concurrency) ==
    LET bs == AllTasks(records, TablesInOrder(records), batch_size) IN
    [batches  |-> bs,
     next     |-> 1,
     w        |-> [x \in 1..concurrency |-> [pc |-> "idle", b |-> 0, g |-> 0]],
     cache    |-> {},
     prepares |-> [k \in CacheKeys(bs) |-> 0],
     uses     |-> [k \in CacheKeys(bs) |-> 0]]

\* the key worker x is at
KeyOf(x) == CacheKey(pw.batches[pw.w[x].b], pw.w[x].g)

\* a free worker takes the next submitted batch
PWTake(x) ==
    /\ cli = "prepare" /\ x \in DOMAIN pw.w /\ pw.w[x].pc = "idle"
    /\ pw.next <= Len(pw.batches)
    /\ pw' = [pw EXCEPT !.w[x] = [pc |-> "check", b |-> pw.next, g |-> 1],
                        !.next = @ + 1]
    /\ UNCHANGED <<bulkVars, cli, conn, kf, aero, pg>>

\* if cache_key not in prepared_statements
PWCheck(x) ==
    /\ cli = "prepare" /\ x \in DOMAIN pw.w /\ pw.w[x].pc = "check"
    /\ pw' = [pw EXCEPT !.w[x].pc = IF KeyOf(x) \in pw.cache
                                    THEN "execute" ELSE "prepare"]
    /\ UNCHANGED <<bulkVars, cli, conn, kf, aero, pg>>

\* stmt = self.session.prepare(insert_query); a failure ends the attempt
PWPrepare(x, ok) ==
    /\ cli = "prepare" /\ x \in DOMAIN pw.w /\ pw.w[x].pc = "prepare"
    /\ pw' = IF ok
             THEN [pw EXCEPT !.w[x].pc = "store", !.prepares[KeyOf(x)] = @ + 1]
             ELSE [pw EXCEPT !.w[x] = [pc |-> "idle", b |-> 0, g |-> 0]]
    /\ UNCHANGED <<bulkVars, cli, conn, kf, aero, pg>>

\* prepared_statements[cache_key] = stmt
PWStore(x) ==
    /\ cli = "prepare" /\ x \in DOMAIN pw.w /\ pw.w[x].pc = "store"
    /\ pw' = [pw EXCEPT !.w[x].pc = "execute", !.cache = @ \cup {KeyOf(x)}]
    /\ UNCHANGED <<bulkVars, cli, conn, kf, aero, pg>>

\* the grouped write with the statement of the cache, then the next group
PWExecute(x) ==
    /\ cli = "prepare" /\ x \in DOMAIN pw.w /\ pw.w[x].pc = "execute"
    /\ pw' = IF pw.w[x].g < Len(pw.batches[pw.w[x].b].groups)
             THEN [pw EXCEPT !.uses[KeyOf(x)] = @ + 1,
                             !.w[x].pc = "check", !.w[x].g = @ + 1]
             ELSE [pw EXCEPT !.uses[KeyOf(x)] = @ + 1,
                             !.w[x] = [pc |-> "idle", b |-> 0, g |-> 0]]
    /\ UNCHANGED <<bulkVars, cli, conn, kf, aero, pg>>

PWNext ==
    \/ \E x \in 1..MaxConc : PWTake(x)
    \/ \E x \in 1..MaxConc : PWCheck(x)
    \/ \E x \in 1..MaxConc : \E ok \in BOOLEAN : PWPrepare(x, ok)
    \/ \E x \in 1..MaxConc : PWStore(x)
    \/ \E x \in 1..MaxConc : PWExecute(x)

\* ------------------------------------ Cassandra / Dragonfly __enter__
\* the object before __enter__: no session / client yet
ConnInit(client, connection_attempts) ==
    [client |-> client, connection_attempts |-> connection_attempts,
     attempt |-> 0, tries |-> 0, session |-> "none", st |-> "loop"]

\* what one pass of the connection loop may do: Cassandra connects and then
\* sets the keyspace, Dragonfly builds the client and pings
ConnOutcomes(client) ==
    IF client = "cassandra" THEN {"ok", "connect_error", "keyspace_error"}
    ELSE {"ok", "ping_error"}

\* self.session / self.client after a pass with the given outcome
SessionAfter(old, outcome) ==
    CASE outcome = "ok"             -> "ready"
      [] outcome = "connect_error"  -> old
      [] outcome = "keyspace_error" -> "unusable"
      [] outcome = "ping_error"     -> "unusable"

\* attempt += 1; if attempt >= self.connection_attempts: raise
AfterFailure(attempt, connection_attempts) ==
    IF attempt >= connection_attempts THEN "raised" ELSE "loop"

\* one pass of `while attempt < self.connection_attempts`
ConnAttempt(outcome) ==
    /\ cli = "connect" /\ conn.st = "loop"
    /\ conn.attempt < conn.connection_attempts
    /\ outcome \in ConnOutcomes(conn.client)
    /\ conn' = IF outcome = "ok"
               THEN [conn EXCEPT !.tries = @ + 1, !.session = "ready",
                                 !.st = "returned"]
               ELSE [conn EXCEPT !.tries = @ + 1, !.attempt = @ + 1,
                                 !.session = SessionAfter(@, outcome),
                                 !.st = AfterFailure(conn.attempt + 1,
                                                     conn.connection_attempts)]
    /\ UNCHANGED <<bulkVars, cli, pw, kf, aero, pg>>

\* the loop condition is false on entry: return self
ConnSkip ==
    /\ cli = "connect" /\ conn.st = "loop"
    /\ ~(conn.attempt < conn.connection_attempts)
    /\ conn' = [conn EXCEPT !.st = "returned"]
    /\ UNCHANGED <<bulkVars, cli, pw, kf, aero, pg>>

ConnNext ==
    \/ \E o \in {"ok", "connect_error", "keyspace_error", "ping_error"} :
          ConnAttempt(o)
    \/ ConnSkip

\* ------------------------------------------------ Kafka: the searches
\* the largest batch find_message_by_key / send_and_search_by_json ask for
FindBatchCap   == 50
SearchBatchCap == 100

Max(a, b) == IF a > b THEN a ELSE b

\* the locals of a search at its start; elapsed is time.time() - start_time
\* in whole ticks, late counts the batches asked for after max_wait_time
KFInit(fn, search_depth, max_wait_time, return_all, max_messages_search) ==
    [fn |-> fn, search_depth |-> search_depth, max_wait_time |-> max_wait_time,
     return_all |-> return_all, max_messages_search |-> max_messages_search,
     counter |-> 0, found |-> 0, examined |-> 0, elapsed |-> 0, late |-> 0,
     st |-> "loop"]

\* the number of messages the next consume asks for
NumMessages(f) ==
    IF f.fn = "find"
    THEN Max(Min(f.search_depth - f.counter, FindBatchCap), 1)
    ELSE Max(Min(Min(f.max_messages_search - f.found,
                     f.search_depth - f.counter), SearchBatchCap), 1)

\* the condition of the while loop
KFLoops(f) ==
    IF f.fn = "find" THEN f.counter < f.search_depth
    ELSE f.found < f.max_messages_search /\ f.counter < f.search_depth

\* the consume of one pass: it takes dt ticks; late counts it when
\* max_wait_time had already passed
Consumed(f, dt) ==
    [f EXCEPT !.elapsed = @ + dt,
              !.late = IF f.elapsed > f.max_wait_time THEN @ + 1 ELSE @]

\* the while condition is false: the search returns what it has
KFExit ==
    /\ cli = "kafka" /\ kf.st = "loop"
    /\ ~KFLoops(kf)
    /\ kf' = [kf EXCEPT !.st = "returned"]
    /\ UNCHANGED <<bulkVars, cli, pw, conn, aero, pg>>

\* one pass of the loop of find_message_by_key: the deadline is tested
\* first; the batch has k messages, the hit-th is the first with the key
KFFindPass(k, hit, dt) ==
    /\ cli = "kafka" /\ kf.st = "loop" /\ kf.fn = "find"
    /\ KFLoops(kf)
    /\ IF kf.elapsed >= kf.max_wait_time
       THEN /\ k = 0 /\ hit = 0 /\ dt = 0
            /\ kf' = [kf EXCEPT !.st = "returned"]
       ELSE /\ k \in 0..NumMessages(kf)
            /\ hit \in 0..k
            /\ kf.elapsed + dt <= MaxTime
            /\ LET f == Consumed(kf, dt) IN
               kf' = IF hit > 0 /\ ~kf.return_all
                     THEN [f EXCEPT !.counter = @ + hit - 1,
                                    !.examined = @ + hit,
                                    !.found = @ + 1, !.st = "returned"]
                     ELSE [f EXCEPT !.counter = @ + k, !.examined = @ + k,
                                    !.found = @ + (IF hit > 0 THEN 1 ELSE 0)]
    /\ UNCHANGED <<bulkVars, cli, pw, conn, aero, pg>>

\* one pass of the loop of send_and_search_by_json: the deadline is tested
\* only after an empty batch; m of the k messages match the criteria
KFSearchPass(k, m, dt) ==
    /\ cli = "kafka" /\ kf.st = "loop" /\ kf.fn = "search"
    /\ KFLoops(kf)
    /\ k \in 0..NumMessages(kf)
    /\ m \in 0..k
    /\ kf.elapsed + dt <= MaxTime
    /\ LET f == Consumed(kf, dt) IN
       kf' = IF k = 0
             THEN IF f.elapsed > f.max_wait_time
                  THEN [f EXCEPT !.st = "returned"]
                  ELSE f
             ELSE [f EXCEPT !.counter = @ + k, !.examined = @ + k,
                            !.found = @ + m]
    /\ UNCHANGED <<bulkVars, cli, pw, conn, aero, pg>>

KFNext ==
    \/ KFExit
    \/ \E k, hit \in 0..MaxDepth : \E dt \in {0, 1} : KFFindPass(k, hit, dt)
    \/ \E k, m \in 0..MaxDepth : \E dt \in {0, 1} : KFSearchPass(k, m, dt)

\* ------------------------------------------- AerospikeClient.write
\* one call write(..., bins, rewrite) with ttl = None on a key whose record
\* is rec ("absent", or the name of the bins it holds); another client may
\* put the same key `other` more times.  The client library is not part of
\* the repository: `truthy` is TRUE when its exists() answers with an object
\* that is true whether or not the record is there
AeroInit(rec, rewrite, other, truthy) ==
    [rec |-> rec, rewrite |-> rewrite, other |-> other, truthy |-> truthy,
     at |-> "exists1",
     ret |-> "none", clobbered |-> FALSE, created |-> FALSE]

\* the record is stored under the key
Stored(rec) == rec # "absent"

\* self.client.exists(path), read as a truth value
Exists(a) == a.truthy \/ Stored(a.rec)

\* if self.client.exists(path) and not rewrite: return False
AeroExists1 ==
    /\ cli = "aerospike" /\ aero.at = "exists1"
    /\ aero' = IF Exists(aero) /\ ~aero.rewrite
               THEN [aero EXCEPT !.at = "done", !.ret = "False"]
               ELSE [aero EXCEPT !.at = "exists2"]
    /\ UNCHANGED <<bulkVars, cli, pw, conn, kf, pg>>

\* elif self.client.exists(path) and rewrite: ... else: ...; both branches
\* go on to the same put
AeroExists2 ==
    /\ cli = "aerospike" /\ aero.at = "exists2"
    /\ aero' = [aero EXCEPT !.at = IF Exists(aero) /\ aero.rewrite
                                   THEN "put_rewrite" ELSE "put_create"]
    /\ UNCHANGED <<bulkVars, cli, pw, conn, kf, pg>>

\* self.client.put(path, bins); return True
AeroPut ==
    /\ cli = "aerospike" /\ aero.at \in {"put_rewrite", "put_create"}
    /\ aero' = [aero EXCEPT !.rec = "mine", !.at = "done", !.ret = "True",
                            !.clobbered = Stored(aero.rec),
                            !.created = ~Stored(aero.rec)]
    /\ UNCHANGED <<bulkVars, cli, pw, conn, kf, pg>>

\* another writer puts the same key
AeroOther ==
    /\ cli = "aerospike" /\ aero.other > 0
    /\ aero' = [aero EXCEPT !.rec = "other", !.other = @ - 1]
    /\ UNCHANGED <<bulkVars, cli, pw, conn, kf, pg>>

AeroNext == AeroExists1 \/ AeroExists2 \/ AeroPut \/ AeroOther

\* --------------------------------------------------- PostgresClient
\* _conn and _cursor are "None" or the state of the driver object they
\* hold; last is how the latest operation ended and opconn the state of
\* the connection when it was called; exitlog lists the driver calls of
\* __exit__ in order
PGOps == {"select", "execute", "executemany", "fetchone", "get_column_values"}

PGInit ==
    [_conn |-> "None", _cursor |-> "None", at |-> "new", ops |-> 0,
     lastop |-> "none", last |-> "none", opconn |-> "None",
     exc_type |-> FALSE, exitlog |-> <<>>]

\* __enter__: psycopg2.connect(...), then self._conn.cursor(); either may
\* raise, and then the with block and __exit__ do not run
PGEnter(connected, cursor) ==
    /\ cli = "postgres" /\ pg.at = "new"
    /\ connected \/ ~cursor
    /\ pg' = [pg EXCEPT !._conn = IF connected THEN "open" ELSE @,
                        !._cursor = IF cursor THEN "open" ELSE @,
                        !.at = IF cursor THEN "entered" ELSE "enter_failed"]
    /\ UNCHANGED <<bulkVars, cli, pw, conn, kf, aero>>

\* if not self._conn or not self._cursor: an object is true whatever its state
NotOpened(p) == p._conn = "None" \/ p._cursor = "None"

\* select, execute, executemany, fetchone, get_column_values: the guard,
\* then the driver calls, which raise on a closed cursor and may raise on an
\* open one
PGOp(name, ok) ==
    /\ cli = "postgres" /\ pg.ops < MaxOps
    /\ pg' = [pg EXCEPT !.ops = @ + 1, !.lastop = name, !.opconn = pg._conn,
                        !.last = IF NotOpened(pg) THEN "RuntimeError"
                                 ELSE IF pg._cursor = "open" /\ pg._conn = "open" /\ ok
                                      THEN "ok" ELSE "driver_error"]
    /\ UNCHANGED <<bulkVars, cli, pw, conn, kf, aero>>

\* __exit__(exc_type, ...): cursor.close(); rollback() or commit(), then
\* close(); `fails` names the driver call that raises, and the exception is
\* swallowed; neither field is reset
PGExit(exc_type, fails) ==
    /\ cli = "postgres" /\ pg.at = "entered"
    /\ LET tx == IF exc_type THEN "rollback" ELSE "commit" IN
       pg' = [pg EXCEPT !.at = "exited", !.exc_type = exc_type,
                        !._cursor = IF fails = "cursor.close" THEN @ ELSE "closed",
                        !._conn = IF fails \in {"tx", "close"} THEN @ ELSE "closed",
                        !.exitlog = IF fails = "tx" THEN <<"cursor.close", tx>>
                                    ELSE <<"cursor.close", tx, "close">>]
    /\ UNCHANGED <<bulkVars, cli, pw, conn, kf, aero>>

PGNext ==
    \/ \E connected, cursor \in BOOLEAN : PGEnter(connected, cursor)
    \/ \E name \in PGOps, ok \in BOOLEAN : PGOp(name, ok)
    \/ \E exc_type \in BOOLEAN, fails \in {"none", "cursor.close", "tx", "close"} :
           PGExit(exc_type, fails)

StepInit ==
    /\ BulkIdle
    /\ cli \in {"prepare", "connect", "kafka", "aerospike", "postgres"}
    /\ IF cli = "prepare"
       THEN pw \in {PWInit(r, b, c) : r \in InsertInputs \ {<<>>},
                                      b \in {1, MaxBatch}, c \in {1, MaxConc}}
       ELSE pw = NoFrame
    /\ IF cli = "connect"
       THEN conn \in {ConnInit(c, n) : c \in {"cassandra", "dragonfly"},
                                       n \in {0, 1, MaxAttempts}}
       ELSE conn = NoFrame
    /\ IF cli = "kafka"
       THEN kf \in {KFInit("find", d, w, all, 1) :
                        d \in {0, 1, MaxDepth}, w \in {0, 1, MaxTime - 1},
                        all \in BOOLEAN}
                  \cup {KFInit("search", d, w, FALSE, n) :
                        d \in {0, 1, MaxDepth}, w \in {0, 1, MaxTime - 1},
                        n \in {1, 2}}
       ELSE kf = NoFrame
    /\ IF cli = "aerospike"
       THEN aero \in {AeroInit(r, rw, o, y) : r \in {"absent", "old"},
                                              rw \in BOOLEAN, o \in {0, 1},
                                              y \in BOOLEAN}
       ELSE aero = NoFrame
    /\ pg = IF cli = "postgres" THEN PGInit ELSE NoFrame

StepNext == PWNext \/ ConnNext \/ KFNext \/ AeroNext \/ PGNext

StepSpec == StepInit /\ [][StepNext]_vars

\* ================================================================ claims
InsertTasks == {tasks[i] : i \in 1..Len(tasks)}
DeleteTasks == UNION {{tbl[t].batches[i] : i \in 1..Len(tbl[t].batches)} :
                        t \in DOMAIN tbl}
BatchTasks  == InsertTasks \cup DeleteTasks
HasReturned(t) == t.st \in {"finished", "collected"}
\* the last attempt of the batch failed
Exhausted(t) == HasReturned(t) /\ t.succ = 0 /\ par.max_retries > 0

\* total size of the insert batches of table name that satisfy the test
SizeOf(name, Test(_)) ==
    SumSeq([i \in 1..Len(tasks) |->
              IF tasks[i].table = name /\ Test(tasks[i])
              THEN tasks[i].size ELSE 0])
Succeeded(t) == t.succ > 0

\* C1: every batch that execute_table_batch or execute_delete_batch has
\* returned for counts each of its rows exactly once: successful + failed
\* equals the size of the batch, and one of the two is 0.
C1_EveryRowCountedOnce ==
    \A t \in BatchTasks :
        HasReturned(t) => /\ t.succ + t.fail = t.size
                          /\ t.succ = 0 \/ t.fail = 0

\* C2: a batch is attempted at most max_retries times and exactly
\* max_retries times before it is marked failed; the k-th wait is
\* retry_delay * k, the waits are strictly increasing, one wait follows
\* every failed attempt but the last, and none follows the final one.
C2_RetryBackoff ==
    \A t \in BatchTasks :
        /\ t.attempt <= par.max_retries
        /\ \A k \in 1..Len(t.delays) : t.delays[k] = par.retry_delay * k
        /\ \A k \in 1..(Len(t.delays) - 1) : t.delays[k] < t.delays[k + 1]
        /\ t.st = "running" => Len(t.delays) = t.attempt
        /\ (HasReturned(t) /\ t.attempt > 0) => Len(t.delays) = t.attempt - 1
        /\ t.fail > 0 => /\ t.attempt = par.max_retries
                         /\ Len(t.delays) = Cardinality(1..(par.max_retries - 1))

C2_Witness ==
    \E t \in BatchTasks :
        /\ t.fail > 0 /\ t.attempt >= 3 /\ Len(t.delays) >= 2

\* C3 (as stated): the deleted count of every processed table equals the
\* rows observed across its scan pages (for batch_size >= 1, max_retries >= 1).
C3_DeletedEqualsObserved ==
    (op = "delete_many" /\ pc = "returned" /\ par.batch_size > 0
       /\ par.max_retries > 0) =>
        \A t \in Names : InMetadata(t) => results[t] = tbl[t].observed

\* C3 (amended): the deleted count of a table is the number of rows of the
\* batches whose grouped delete succeeded; it never exceeds the rows
\* observed, equals them when no batch failed permanently and every page
\* was split into batches, and is 0 for an empty table.
C3_DeletedEqualsSucceeded ==
    (op = "delete_many" /\ pc = "returned") =>
        \A t \in Names : InMetadata(t) =>
            /\ results[t] = tbl[t].succRows
            /\ results[t] <= tbl[t].observed
            /\ (tbl[t].failedRows = 0 /\ tbl[t].crit # "config")
                  => results[t] = tbl[t].observed
            /\ TableRows[t] = 0 => results[t] = 0

C3_Witness ==
    /\ op = "delete_many" /\ pc = "returned"
    /\ \E t \in Names : /\ InMetadata(t)
                        /\ tbl[t].failedRows > 0
                        /\ results[t] > 0
                        /\ results[t] < tbl[t].observed

\* C4: a failure of a grouped write or delete (a batch, a submitted delete,
\* an awaited delete) is recorded only after max_retries attempts.
C4_FailureOnlyAfterRetries ==
    \A f \in failures :
        f.kind \in {"batch", "submit", "await"} => f.attempts = par.max_retries

\* C5: a batch whose retries are exhausted does not stop the run: while the
\* run is going on a step is always possible, at the return every batch has
\* been attempted and collected, every table's failed counter is the total
\* size of its exhausted batches and its successful counter the total size
\* of the others; in bulk_delete_many the scan of a table is not cut short
\* by a failed batch and the failed batch reports its whole size as failed.
C5_FailedBatchDoesNotStopRun ==
    /\ (op \in {"insert", "delete_many"} /\ pc = "run") => ENABLED Next
    /\ (op = "insert" /\ pc = "returned" /\ par.records # <<>>) =>
          /\ \A i \in 1..Len(tasks) :
                /\ tasks[i].st = "collected"
                /\ par.max_retries > 0 => tasks[i].attempt > 0
          /\ \A name \in DOMAIN table_stats :
                /\ table_stats[name].failed = SizeOf(name, Exhausted)
                /\ table_stats[name].successful = SizeOf(name, Succeeded)
    /\ (op = "delete_many") =>
          /\ \A t \in DeleteTasks : Exhausted(t) => t.fail = t.size
          /\ pc = "returned" =>
                \A t \in Names : (InMetadata(t) /\ tbl[t].crit = "none") =>
                    /\ tbl[t].observed = TableRows[t]
                    /\ results[t] + tbl[t].failedRows = TableRows[t]

C5_Witness ==
    /\ op = "insert" /\ pc = "returned"
    /\ \E name \in DOMAIN table_stats :
          /\ table_stats[name].failed > 0
          /\ table_stats[name].successful > 0

\* C6 (as stated): every report of bulk_insert has a success_rate in [0, 1],
\* which is 0 when there are no input records.
C6_RateInUnitInterval ==
    (op = "insert" /\ pc = "returned") =>
        /\ "success_rate" \in DOMAIN report
        /\ 0 <= report.success_rate[1]
        /\ report.success_rate[1] <= report.success_rate[2]
        /\ par.records = <<>> => report.success_rate[1] = 0

\* C6 (amended): for a non-empty input the success_rate is the percentage
\* 100 * total_successful / total_records, in [0, 100]; the report returned
\* for an empty input has no success_rate.
C6_RateIsPercentage ==
    (op = "insert" /\ pc = "returned") =>
        IF par.records = <<>>
        THEN "success_rate" \notin DOMAIN report
        ELSE /\ "success_rate" \in DOMAIN report
             /\ report.success_rate[2] = Len(par.records)
             /\ report.success_rate[1] = 100 * report.total_successful
             /\ 0 <= report.success_rate[1]
             /\ report.success_rate[1] <= 100 * report.success_rate[2]

C6_Witness ==
    /\ op = "insert" /\ pc = "returned" /\ par.records # <<>>
    /\ report.success_rate[1] = 100 * report.success_rate[2]

\* C7: a requested table the keyspace does not know never makes
\* bulk_delete_many raise; the result gives it 0 and gives every other
\* table the number of rows of its successfully deleted batches, and the
\* other tables are scanned to the end unless their own scan fails.
C7_AbsentTableYieldsZero ==
    op = "delete_many" =>
        /\ pc = "raised" => cause \in {"prepare", "config"}
        /\ pc = "returned" =>
              \A t \in Names :
                  /\ ~InMetadata(t) => results[t] = 0
                  /\ InMetadata(t) => results[t] = tbl[t].succRows
                  /\ (InMetadata(t) /\ tbl[t].crit = "none")
                        => tbl[t].observed = TableRows[t]

C7_Witness ==
    /\ op = "delete_many" /\ pc = "returned"
    /\ \E t, u \in Names : /\ ~InMetadata(t) /\ results[t] = 0
                           /\ InMetadata(u) /\ results[u] > 0

InvalidParams ==
    \/ par.concurrency = 0
    \/ op \in {"insert", "delete_many"} /\ par.batch_size = 0
    \/ op = "delete_many" /\ par.table_names = <<>>

\* C8: a critical error of one table of bulk_delete_many (page fetch or
\* statement preparation) never ends the call: called with valid
\* parameters, bulk_delete_many does not raise.
C8_CriticalErrorContained ==
    (op = "delete_many" /\ ~InvalidParams) => pc # "raised"

\* C9: a call with invalid parameters hands no statement to the session
\* and returns no result (the early return of bulk_insert for an empty
\* record list, and calls ended by a failure of the session itself, are
\* left aside).
C9_InvalidParamsRaiseFirst ==
    (InvalidParams /\ cause \in {"none", "config"}) =>
        /\ stmts = {}
        /\ pc = "returned" => (op = "insert" /\ par.records = <<>>)

\* C10: bulk_insert and bulk_delete_many never raise once a batch has
\* failed, and the failures show in the counts of the returned result: the
\* report's total_failed is the total size of the exhausted batches, and a
\* table's deleted count leaves out the rows of its failed batches.
C10_BatchFailureNeverRaises ==
    op \in {"insert", "delete_many"} =>
        /\ failures # {} => pc # "raised"
        /\ (op = "insert" /\ pc = "returned" /\ par.records # <<>>) =>
              report.total_failed =
                  SumSeq([i \in 1..Len(tasks) |->
                            IF Exhausted(tasks[i]) THEN tasks[i].size ELSE 0])
        /\ (op = "delete_many" /\ pc = "returned") =>
              \A t \in Names : InMetadata(t) =>
                  results[t] + tbl[t].failedRows <= tbl[t].observed

C10_Witness ==
    /\ pc = "returned" /\ failures # {}
    /\ \/ op = "insert" /\ report.total_failed = Len(par.records)
       \/ op = "delete_many" /\ \E t \in Names : InMetadata(t)
                                   /\ tbl[t].failedRows = TableRows[t]
                                   /\ TableRows[t] > 0

\* what the call hands back to its caller
Returned == IF op = "insert" THEN report ELSE results

\* C11 (as stated): the report returned by a bulk operation that had work
\* to do carries a success rate and, per table, a list of error messages.
C11_ReportHasRateAndErrors ==
    (op \in {"insert", "delete_many"} /\ pc = "returned"
       /\ (op = "insert" => par.records # <<>>)) =>
        /\ "success_rate" \in DOMAIN Returned
        /\ "tables" \in DOMAIN Returned
        /\ \A name \in DOMAIN Returned.tables :
              "errors" \in DOMAIN Returned.tables[name]

\* C11 (amended): the report of bulk_insert for a non-empty input carries a
\* success rate and, for every table, the error messages of its batches,
\* one per failed attempt, so a table with failed > 0 has a non-empty error
\* list; the result of bulk_delete_many is only a count per table.
C11_InsertReportShowsFailures ==
    /\ (op = "insert" /\ pc = "returned" /\ par.records # <<>>) =>
          /\ "success_rate" \in DOMAIN report
          /\ \A name \in DOMAIN report.tables :
                /\ Len(report.tables[name].errors) =
                      SumSeq([i \in 1..Len(tasks) |->
                                IF tasks[i].table = name
                                THEN tasks[i].attempt
                                       - (IF tasks[i].succ > 0 THEN 1 ELSE 0)
                                ELSE 0])
                /\ report.tables[name].failed > 0
                      => report.tables[name].errors # <<>>
    /\ (op = "delete_many" /\ pc = "returned") =>
          \A name \in DOMAIN results : results[name] \in Nat

C11_Witness ==
    /\ op = "insert" /\ pc = "returned" /\ par.records # <<>>
    /\ \E name \in DOMAIN report.tables :
          /\ report.tables[name].failed > 0
          /\ Len(report.tables[name].errors) >= 3

\* C12: called with valid parameters, bulk_delete_many always produces its
\* result, and the result has one entry for every requested table name and
\* no other, with 0 for a table that was not found or whose scan failed at
\* its first page.
C12_ResultForEveryTable ==
    (op = "delete_many" /\ ~InvalidParams) =>
        /\ pc # "raised"
        /\ pc = "returned" =>
              /\ DOMAIN results = Names
              /\ \A t \in Names :
                    (~InMetadata(t) \/ tbl[t].observed = 0) => results[t] = 0

\* a table the key columns of which cannot be resolved
Unresolvable(t) == ~InMetadata(t) \/ PkColumns(t) = <<>>

\* C13: a table that is absent from the keyspace metadata, or that has no
\* key column, gets no SELECT or DELETE prepared or executed in any of the
\* delete entry points, and the single-table entry points raise for it
C13_NoStatementForUnresolvableTable ==
    /\ \A t \in AllTables : Unresolvable(t) =>
           \A kind \in {"select", "delete"} : <<kind, t>> \notin stmts
    /\ (op \in {"delete", "get_keys"} /\ Unresolvable(par.table_name)) =>
           pc # "returned"

\* C14: in bulk_delete a failed page fetch, the first or a later one, is not
\* retried and raises; every page is fetched once, and the rows of the pages
\* before the failure have been processed and stay counted
C14_FetchFailurePropagates ==
    (op = "delete" /\ bd # NoFrame) =>
        /\ cause = "fetch" => /\ pc = "raised"
                              /\ bd.fetches = bd.page_num + 1
                              /\ bd.total_deleted = bd.observed
        /\ cause # "fetch" => bd.fetches = bd.page_num
        /\ <<"select", par.table_name>> \in stmts

C14_Witness ==
    /\ op = "delete" /\ pc = "raised" /\ cause = "fetch"
    /\ bd.page_num = 2 /\ bd.total_deleted = 2

\* the batches of the sequence ts a worker is executing
Running(ts) == {j \in 1..Len(ts) : ts[j].st = "running"}

\* C15: at every moment the batches in execution of a bulk_insert run, and of
\* each table of a bulk_delete_many run, are at most the configured
\* concurrency; a batch is one task of the pool, submitted once
C15_InnerConcurrencyBound ==
    /\ op = "insert" =>
          /\ Cardinality(Running(tasks)) <= par.concurrency
          /\ \A i, j \in 1..Len(tasks) :
                (tasks[i].table = tasks[j].table /\ tasks[i].num = tasks[j].num)
                    => i = j
    /\ op = "delete_many" => \A t \in DOMAIN tbl :
          /\ Cardinality(Running(tbl[t].batches)) <= par.concurrency
          /\ \A i, j \in 1..Len(tbl[t].batches) :
                tbl[t].batches[i].num = tbl[t].batches[j].num => i = j

C15_Witness ==
    /\ op = "insert" /\ pc = "run"
    /\ Cardinality(Running(tasks)) = MaxConc
    /\ par.concurrency = MaxConc
    /\ \E i \in 1..Len(tasks) : tasks[i].st = "queued"

\* the tables whose process_table call is in flight
InFlight == {t \in DOMAIN tbl : tbl[t].st = "run"}

\* C16: at every moment of a bulk_delete_many run the tables in flight are at
\* most min(number of tables, concurrency), whatever number of batches the
\* inner pools of these tables are executing
C16_OuterConcurrencyBound ==
    op = "delete_many" =>
        /\ Cardinality(InFlight) <= par.concurrency
        /\ Cardinality(InFlight) <= Len(par.table_names)

C16_Witness ==
    /\ op = "delete_many" /\ pc = "run"
    /\ Cardinality(InFlight) = MaxConc
    /\ par.concurrency = MaxConc
    /\ \E t, u \in InFlight :
          /\ t # u
          /\ Cardinality(Running(tbl[t].batches)) = MaxConc
          /\ Cardinality(Running(tbl[u].batches)) = 1

\* C17: within one table, when the fetch of the next page is issued every
\* batch of the current page has finished, with success or declared failed;
\* in bulk_delete every DELETE of the page has been awaited
C17_PageFinishedBeforeNextFetch ==
    [][ /\ \A t \in DOMAIN tbl \cap DOMAIN tbl' :
              Len(tbl'[t].used) > Len(tbl[t].used) =>
                  /\ \A i \in 1..Len(tbl[t].batches) :
                        /\ HasReturned(tbl[t].batches[i])
                        /\ tbl[t].batches[i].succ + tbl[t].batches[i].fail
                               = tbl[t].batches[i].size
                  /\ tbl[t].succRows + tbl[t].failedRows = tbl[t].observed
        /\ (bd # NoFrame /\ Len(bd'.used) > Len(bd.used)) =>
              /\ bd.futures = <<>>
              /\ bd.total_deleted = bd.observed
      ]_vars

C17_Witness ==
    /\ op = "delete_many" /\ pc = "run"
    /\ \E t \in DOMAIN tbl :
          /\ tbl[t].st = "run" /\ tbl[t].used # <<>>
          /\ tbl[t].failedRows > 0 /\ tbl[t].succRows > 0

\* the paging states in the sequence used are pairwise different
EachOnce(used) ==
    \A i, j \in 1..Len(used) : used[i] = used[j] => i = j

\* a scan frame: one fetch per page, none before the page before it was
\* taken, every paging state sent once, and no row seen twice
SequentialScan(f, t) ==
    /\ EachOnce(f.used)
    /\ f.page_num \in {Len(f.used), Len(f.used) + 1}
    /\ f.observed <= TableRows[t]

\* C18: within one table the pages are fetched one after another, each
\* paging state is used for one fetch, and the scan ends at the first page
\* that is empty or reports no more pages
C18_SequentialPaging ==
    /\ op = "delete_many" => \A t \in DOMAIN tbl :
          /\ InMetadata(t) => SequentialScan(tbl[t], t)
          /\ (tbl[t].st \in {"done", "collected"} /\ tbl[t].crit = "none"
                /\ InMetadata(t))
                => (tbl[t].rows = 0 \/ ~tbl[t].has_more)
          /\ (tbl[t].st = "run" /\ tbl[t].page_num > 1) => tbl[t].rows > 0
    /\ (op = "delete" /\ bd # NoFrame) =>
          /\ SequentialScan(bd, par.table_name)
          /\ bd.fetches = Len(bd.used) + 1
          /\ pc = "returned" => (bd.rows = 0 \/ ~bd.has_more)

C18_Witness ==
    /\ op = "delete_many"
    /\ \E t \in DOMAIN tbl :
          /\ tbl[t].st = "done" /\ tbl[t].crit = "none"
          /\ Len(tbl[t].used) > 1 /\ tbl[t].rows = 0

\* the sizes of the batches of the sequence ts
Sizes(ts) == [i \in 1..Len(ts) |-> ts[i].size]

\* consecutive chunks of at most batch_size that cover n items, only the last
\* one being smaller
ChunksOf(sizes, n, batch_size) ==
    /\ SumSeq(sizes) = n
    /\ \A i \in 1..Len(sizes) : sizes[i] \in 1..batch_size
    /\ \A i \in 1..(Len(sizes) - 1) : sizes[i] = batch_size

\* C19: in bulk_delete_many the batches of a table are those of its current
\* page alone: consecutive, numbered from 1, of at most batch_size rows, only
\* the last one smaller, and together exactly the rows of the page
C19_BatchesWithinPage ==
    op = "delete_many" => \A t \in DOMAIN tbl :
        tbl[t].st = "run" =>
            /\ tbl[t].rows \in 1..par.page_size
            /\ ChunksOf(Sizes(tbl[t].batches), tbl[t].rows, par.batch_size)
            /\ \A i \in 1..Len(tbl[t].batches) : tbl[t].batches[i].num = i

C19_Witness ==
    /\ op = "delete_many" /\ par.batch_size = 2
    /\ \E t \in DOMAIN tbl :
          /\ tbl[t].st = "run" /\ tbl[t].rows > par.batch_size
          /\ Sizes(tbl[t].batches) = <<2, 1>>

\* the tables named by the input records
InputTables == {par.records[i].table : i \in 1..Len(par.records)}

\* the positions of the input records of table t, and their number
RecordsOf(t) == {i \in 1..Len(par.records) : par.records[i].table = t}

\* the batches submitted for table t, in submission order
TasksOf(t) == SelectIdx(tasks, {i \in 1..Len(tasks) : tasks[i].table = t})

\* the column sets of the records number lo..hi of table t, in input order
Slice(t, lo, hi) ==
    LET mine == SelectIdx(par.records, RecordsOf(t))
    IN  [i \in 1..(hi - lo + 1) |-> mine[lo + i - 1].cols]

\* ceil(n / d)
CeilDiv(n, d) == (n + d - 1) \div d

\* C20: bulk_insert groups the input by table and chunks each table's
\* records, in input order, into batches of at most batch_size; every record
\* is in one batch, a batch holds records of one table, and a table with n
\* records gives ceil(n / batch_size) batches, the value of its batches
\* counter in the report
C20_InsertChunking ==
    (op = "insert" /\ pc \in {"run", "returned"} /\ par.records # <<>>) =>
        /\ {tasks[i].table : i \in 1..Len(tasks)} = InputTables
        /\ \A t \in InputTables :
              LET ts == TasksOf(t)
                  n  == Cardinality(RecordsOf(t))
              IN  /\ ChunksOf(Sizes(ts), n, par.batch_size)
                  /\ Len(ts) = CeilDiv(n, par.batch_size)
                  /\ \A k \in 1..Len(ts) :
                        /\ ts[k].num = k
                        /\ ts[k].groups = ColumnsGroups(
                              Slice(t, (k - 1) * par.batch_size + 1,
                                    Min(k * par.batch_size, n)))
                  /\ pc = "returned" =>
                        /\ t \in DOMAIN report.tables
                        /\ report.tables[t].batches = CeilDiv(n, par.batch_size)
        /\ pc = "returned" => DOMAIN report.tables = InputTables

C20_Witness ==
    /\ op = "insert" /\ pc = "returned"
    /\ par.batch_size = 2 /\ InputTables = {"t1"}
    /\ Sizes(tasks) = <<2, 1>>
    /\ report.tables["t1"].batches = 2

\* the column sets of the records of batch number k of table t
BatchSlice(t, k) ==
    Slice(t, (k - 1) * par.batch_size + 1,
          Min(k * par.batch_size, Cardinality(RecordsOf(t))))

\* C21: within one insert batch the records are partitioned by column set:
\* one grouped write per column set of the batch, holding exactly the records
\* of that column set, and a successful attempt executes every one of them
C21_GroupedByColumnSet ==
    op = "insert" => \A i \in 1..Len(tasks) :
        LET t     == tasks[i]
            slice == BatchSlice(t.table, t.num)
        IN  /\ \A k, j \in 1..Len(t.groups) :
                  t.groups[k].cols = t.groups[j].cols => k = j
            /\ \A k \in 1..Len(t.groups) :
                  t.groups[k].n = Cardinality({x \in 1..Len(slice) :
                                                  slice[x] = t.groups[k].cols})
            /\ {slice[x] : x \in 1..Len(slice)}
                  = {t.groups[k].cols : k \in 1..Len(t.groups)}
            /\ SumSeq([k \in 1..Len(t.groups) |-> t.groups[k].n]) = t.size
            /\ t.succ > 0 => \A k \in 1..Len(t.groups) : t.wcount[k] >= 1

C21_Witness ==
    /\ op = "insert"
    /\ \E i \in 1..Len(tasks) :
          /\ Len(tasks[i].groups) = 2 /\ tasks[i].succ = 2
          /\ tasks[i].wcount = <<1, 1>>

\* C22: a batch is the unit of retry: every attempt of an insert batch or of
\* a delete batch sets out to submit all records of the batch, the column
\* groups already written by a failed attempt included
C22_WholeBatchRetried ==
    \A t \in BatchTasks :
        /\ t.sent \subseteq {t.size}
        /\ t.attempt > 0 => t.sent = {t.size}
        /\ \A k \in 1..Len(t.groups) :
              /\ t.wcount[k] <= t.attempt
              /\ \A j \in 1..(k - 1) : t.wcount[j] >= t.wcount[k]

C22_Witness ==
    /\ op = "insert"
    /\ \E i \in 1..Len(tasks) :
          /\ Len(tasks[i].groups) = 2 /\ tasks[i].attempt = 2
          /\ tasks[i].wcount = <<2, 1>> /\ tasks[i].succ = tasks[i].size

\* C23: within one bulk_insert call the insert statement of a
\* (table, column set) key is prepared at most once, whatever the
\* interleaving of the workers
C23_PreparedAtMostOnce ==
    cli = "prepare" => \A k \in DOMAIN pw.prepares : pw.prepares[k] <= 1

\* the sum of field succ or fail over the batches of ts in state st
Tally(ts, st, field) ==
    SumSeq([i \in 1..Len(ts) |-> IF ts[i].st = st THEN ts[i][field] ELSE 0])

\* C24: no update of a table's accumulator is lost: at every moment the
\* counters of a table are the sums of the results of the batches of that
\* table taken so far, batches of other tables leave them alone, and the
\* returned values are the sums over all batches of the table
C24_NoLostUpdate ==
    /\ op = "insert" =>
          /\ \A t \in DOMAIN table_stats :
                LET ts == TasksOf(t) IN
                /\ table_stats[t].successful = Tally(ts, "collected", "succ")
                /\ table_stats[t].failed = Tally(ts, "collected", "fail")
                /\ table_stats[t].batches
                      = Cardinality({i \in 1..Len(ts) : ts[i].st = "collected"})
          /\ \A i \in 1..Len(tasks) :
                tasks[i].st = "collected" => tasks[i].table \in DOMAIN table_stats
          /\ (pc = "returned" /\ par.records # <<>>) =>
                report.tables = table_stats
    /\ op = "delete_many" => \A t \in DOMAIN tbl :
          /\ tbl[t].total_deleted + Tally(tbl[t].batches, "finished", "succ")
                = tbl[t].succRows
          /\ (t \in DOMAIN results) => results[t] = tbl[t].total_deleted

C24_Witness ==
    /\ op = "insert" /\ pc = "returned"
    /\ Cardinality(DOMAIN report.tables) = 2
    /\ \E t \in DOMAIN report.tables :
          /\ report.tables[t].batches = 2
          /\ report.tables[t].successful = 1 /\ report.tables[t].failed = 1

\* C25: for every non-empty input and every batch_size and concurrency of at
\* least 1, whatever max_retries is, the report of bulk_insert accounts for
\* every record: total_successful + total_failed = total_records
C25_ReportAccountsForAll ==
    (op = "insert" /\ pc = "returned" /\ par.records # <<>>) =>
        report.total_successful + report.total_failed = report.total_records

\* C26: a record counted as failed was in no grouped write the session
\* executed: a batch with a failed count has none of its column groups
\* written
C26_FailedMeansNotWritten ==
    (op = "insert" /\ par.max_retries = 1) =>
        \A i \in 1..Len(tasks) :
            tasks[i].fail > 0 =>
                \A k \in 1..Len(tasks[i].groups) : tasks[i].wcount[k] = 0

\* C27: __enter__ of Cassandra and of Dragonfly makes at most
\* connection_attempts attempts and either returns with an established
\* session / client or raises ConnectionError after the last failed attempt
C27_EnterConnectsOrRaises ==
    cli = "connect" =>
        /\ conn.tries <= conn.connection_attempts
        /\ conn.st = "returned" => conn.session = "ready"
        /\ conn.st = "raised" => /\ conn.tries = conn.connection_attempts
                                 /\ conn.session # "ready"

\* C28: in both Kafka searches max_wait_time bounds the whole search: no
\* batch is asked for once max_wait_time has passed, whether or not the
\* consumer keeps returning messages, and at most search_depth messages are
\* examined
C28_SearchBoundedByWaitTime ==
    cli = "kafka" =>
        /\ kf.late = 0
        /\ kf.examined <= kf.search_depth

C30_NotOpenRaisesRuntimeError ==
    cli = "postgres" =>
        /\ (pg.lastop # "none" /\ pg.opconn # "open") => pg.last = "RuntimeError"
        /\ pg.at = "exited" =>
              /\ pg.exitlog[2] = (IF pg.exc_type THEN "rollback" ELSE "commit")
              /\ \A i \in 1..Len(pg.exitlog) : pg.exitlog[i] = "close" => i = 3

====
